---------------------------- MODULE Spec2Model ----------------------------
(***************************************************************************)
(* A model of fitting_optimization.py: the module-level configuration, the *)
(* if/elif dispatch to scipy's minimize, and the four objective functions  *)
(* chi_sq_func0_1s, chi_sq_func1_1s, chi_sq_func2_1s and chi_sq_func0_2s,  *)
(* each of which unpacks the trial vector into module globals, runs        *)
(* pemfc_runner.py once per Pt loading and returns a chi-square.           *)
(*                                                                         *)
(* Real quantities are scaled to integers:                                 *)
(*   voltages           0.01 V       (0.95 V is 95)                        *)
(*   error bars         1e-4 V       (12e-3 V is 120)                      *)
(*   loadings w_Pt      1/40 mg/cm^2 (0.2 is 8, 0.025 is 1)                *)
(*   R_naf              1e-3         theta   0.1 degree                    *)
(*   i_o                1e-7         offset  0.01                          *)
(*   a, b               1e-8         c, d, e 1e-3                          *)
(***************************************************************************)
EXTENDS Integers, Sequences, FiniteSets

VARIABLES
    rxn_mech,   \* the reaction-mechanism selector read by the dispatch
    tog,        \* the toggle of line 67
    p0_2s,      \* the initial guess of the 2-step section (line 73)
    b0_2s,      \* the bounds of the 2-step section (line 74)
    pc,         \* position of the script
    fun,        \* objective function handed to minimize
    x0,         \* initial guess handed to minimize
    bounds,     \* bounds handed to minimize
    nEval,      \* objective evaluations started
    nRet,       \* objective evaluations that returned a chi-square
    p_opt,      \* argument of the running objective evaluation
    ctx,        \* module globals read by pemfc_runner.py
    reported,   \* the derived values printed by the evaluation
    i,          \* loop index over w_Pt_vec
    y_model,    \* the local y_model
    chi_sq,     \* the local chi_sq
    log,        \* history: one record per exec of pemfc_runner.py
    res         \* whether minimize returned a result

vars == <<rxn_mech, tog, p0_2s, b0_2s, pc, fun, x0, bounds, nEval, nRet,
          p_opt, ctx, reported, i, y_model, chi_sq, log, res>>

---------------------------------------------------------------------------
(* Bounds of the model *)

\* objective evaluations per run
MaxEvals == 2

\* the simulated curve differs from the observed one by at most this much
MaxDelta == 1

---------------------------------------------------------------------------
(* Module-level data, lines 54-102 *)

p0_1s == <<45, 450, 40, 55>>
b0_1s == << <<20, 120>>, <<425, 800>>, <<10, 90>>, <<52, 100>> >>

p1_1s == <<55, 450, 55, 2420, -40>>
b1_1s == << <<20, 120>>, <<425, 800>>, <<52, 100>>, <<2417, 5000>>, <<-50, 100>> >>

p2_1s == <<500, 13, 65, 929, -1249, 35000>>
b2_1s == << <<425, 800>>, <<5, 90>>, <<52, 100>>, <<0, 1500>>, <<-1500, 0>>,
            <<0, 120000>> >>

x  == <<0, 5, 20, 40, 80, 100, 120, 150, 165, 185, 200>>
y1 == <<95, 85, 80, 77, 73, 72, 70, 68, 67, 65, 63>>
s1 == <<1, 120, 70, 70, 120, 10, 80, 70, 70, 90, 90>>
y2 == <<93, 83, 79, 75, 71, 69, 67, 65, 64, 62, 60>>
s2 == <<1, 90, 70, 50, 70, 110, 110, 70, 90, 110, 110>>
y3 == <<92, 81, 76, 72, 67, 65, 63, 60, 59, 56, 54>>
s3 == <<1, 80, 60, 60, 70, 70, 50, 50, 60, 70, 70>>
y4 == <<91, 79, 72, 68, 63, 60, 57, 53, 50, 46, 43>>
s4 == <<1, 40, 100, 140, 130, 130, 190, 240, 250, 230, 240>>

\* a[1:]
DropFirst(a) == SubSeq(a, 2, Len(a))

y_data == DropFirst(y1) \o DropFirst(y2) \o DropFirst(y3) \o DropFirst(y4)
s_data == DropFirst(s1) \o DropFirst(s2) \o DropFirst(s3) \o DropFirst(s4)

\* the observed curve of the k-th data set
YCurve(k) == <<y1, y2, y3, y4>>[k]

\* the loading each data set is commented with (lines 85, 88, 91, 94)
DataLoading == <<8, 4, 2, 1>>

w_Pt_vec_reversed == <<1, 2, 4, 8>>

\* w_Pt_vec, the same array in all four objective functions
w_Pt_vec == <<8, 4, 2, 1>>

---------------------------------------------------------------------------
(* The objective functions *)

\* the targets of each function's tuple assignment from p_opt
Targets(f) ==
    CASE f = "chi_sq_func0_1s" -> <<"R_naf_opt", "theta_opt", "i_o_opt", "offset_opt">>
      [] f = "chi_sq_func1_1s" -> <<"R_naf_opt", "theta_opt", "offset_opt", "a", "b">>
      [] f = "chi_sq_func2_1s" -> <<"theta_opt", "i_o_opt", "offset_opt", "c", "d", "e">>
      [] f = "chi_sq_func0_2s" -> <<"theta_opt", "i_o_opt", "offset_opt", "A_opt">>
      [] OTHER -> <<>>

\* the parameters each function documents for its p_opt, besides w_Pt
\* (the comment on its def line and its global statement)
SimInputs(f) ==
    CASE f = "chi_sq_func0_1s" -> {"R_naf_opt", "theta_opt", "i_o_opt", "offset_opt"}
      [] f = "chi_sq_func1_1s" -> {"R_naf_opt", "theta_opt", "offset_opt", "a", "b"}
      [] f = "chi_sq_func2_1s" -> {"theta_opt", "i_o_opt", "offset_opt", "c", "d", "e"}
      [] f = "chi_sq_func0_2s" -> {"R_naf_opt", "theta_opt", "i_o_opt", "offset_opt", "A_opt"}
      [] OTHER -> {}

Names == {"w_Pt", "R_naf_opt", "theta_opt", "i_o_opt", "offset_opt",
          "a", "b", "c", "d", "e", "A_opt"}

Abs(n) == IF n < 0 THEN -n ELSE n

IoReport_signed(a, b, w) == a * w + 40 * b

\* one element of abs(a*w_Pt_vec + b), in units of 1e-8/40
IoReport(a, b, w) == Abs(a * w + 40 * b)

\* The term (coef * w^expo + plus) * 1e-3 with w = base/40 and coef, expo, plus
\* in units of 1e-3.  expo is a real exponent, so the power is kept as a term:
\* two terms with the same coef, base and expo are equal exactly when their
\* plus operands are.
RnafTerm(coef, expo, base, plus) ==
    [coef |-> coef, expo |-> expo, base |-> base, plus |-> plus]

\* one element of (c*w_Pt_vec**d + 35) *1e-3
RnafReport(c, d, w) == RnafTerm(c, d, w, 35000)

\* what the function prints after unpacking p
Report(f, p) ==
    CASE f = "chi_sq_func1_1s" ->
            [k \in 1..Len(w_Pt_vec) |-> IoReport(p[4], p[5], w_Pt_vec[k])]
      [] f = "chi_sq_func2_1s" ->
            [k \in 1..Len(w_Pt_vec) |-> RnafReport(p[4], p[5], w_Pt_vec[k])]
      [] OTHER -> <<>>

\* numpy's rule for y_data - y_model on one-dimensional arrays
Broadcastable(m, n) == m = n \/ m = 1 \/ n = 1

\* element j of a one-dimensional array broadcast against a longer one
Bcast(arr, j) == IF Len(arr) = 1 THEN arr[1] ELSE arr[j]

ChiSqTerm_unsquared(yo, ym) == yo - ym

\* numerator of one term (y_data - y_model)**2 / s_data**2
ChiSqTerm(yo, ym) == (yo - ym) * (yo - ym)

Weights == {s_data[j] : j \in 1..Len(s_data)}

RECURSIVE SumNum(_, _, _)
SumNum(ym, s, j) ==
    IF j = 0 THEN 0
    ELSE (IF s_data[j] = s THEN ChiSqTerm(y_data[j], Bcast(ym, j)) ELSE 0)
         + SumNum(ym, s, j - 1)

\* sum((y_data - y_model)**2 / s_data**2), kept exact as the numerators
\* gathered per weight: the value is the sum over s of 1e4 * ChiSq[s] / s^2
ChiSq(ym) == [s \in Weights |-> SumNum(ym, s, Len(y_data))]

ZeroChi == [s \in Weights |-> 0]

---------------------------------------------------------------------------
(* pemfc_runner.py and scipy.optimize.minimize, as seen from this file *)

\* a voltage curve of n points for data set k, dl away from the observed one
Curve(k, n, dl) ==
    [j \in 1..n |->
        (IF j <= Len(x) THEN YCurve(k)[j] ELSE YCurve(k)[Len(x)]) + dl]

\* the values of dphi_ss a run of pemfc_runner.py may leave behind
SimOutputs(k) ==
    {Curve(k, Len(x), dl) : dl \in (0 - MaxDelta)..MaxDelta}
    \cup {Curve(k, n, 0) : n \in {1, 2, Len(x) - 1, Len(x) + 1}}

\* what a user may have filled into the 2-step section: left empty as
\* shipped, the four values the function unpacks, or the five it documents
TwoStepInputs ==
    { [p |-> <<>>, b |-> <<>>],
      [p |-> <<450, 40, 55, 1>>,
       b |-> << <<425, 800>>, <<10, 90>>, <<52, 100>>, <<0, 10>> >>],
      [p |-> <<45, 450, 40, 55, 1>>,
       b |-> << <<20, 120>>, <<425, 800>>, <<10, 90>>, <<52, 100>>, <<0, 10>> >>] }

\* Trial vectors minimize may pass after the initial guess.  L-BFGS-B and its
\* finite-difference gradient are not part of this file, so the set is not
\* restricted to the box: it holds the documented optima and one vector
\* outside the declared bounds per mode.
Trials(f) ==
    CASE f = "chi_sq_func0_1s" -> {<<47, 449, 15, 55>>, <<121, 450, 40, 55>>}
      [] f = "chi_sq_func1_1s" -> {<<54, 450, 55, 2417, -43>>, <<45, 450, 55, 2417, -61>>}
      [] f = "chi_sq_func2_1s" -> {<<501, 21, 66, 915, -1231, 34543>>,
                                   <<450, 20, 55, 874, -1083, 35000>>}
      [] f = "chi_sq_func0_2s" -> {<<449, 15, 55, 2>>, <<450, 40, 55, 11>>}
      [] OTHER -> {}

---------------------------------------------------------------------------
(* The script *)

Init ==
    /\ rxn_mech \in {"1s", "2s"}
    /\ tog \in {0, 1, 2, 3}
    /\ \E u \in TwoStepInputs : p0_2s = u.p /\ b0_2s = u.b
    /\ pc = "dispatch"
    /\ fun = "none"
    /\ x0 = <<>>
    /\ bounds = <<>>
    /\ nEval = 0
    /\ nRet = 0
    /\ p_opt = <<>>
    /\ ctx = [n \in Names |-> [v |-> 0, ev |-> 0]]
    /\ reported = <<>>
    /\ i = 0
    /\ y_model = <<>>
    /\ chi_sq = ZeroChi
    /\ log = <<>>
    /\ res = FALSE

Config == <<rxn_mech, tog, p0_2s, b0_2s>>
Frame == <<p_opt, ctx, reported, i, y_model, chi_sq>>

\* a call minimize(f, p, method='L-BFGS-B', bounds=b)
CallMinimize(f, p, b) ==
    /\ fun' = f
    /\ x0' = p
    /\ bounds' = b
    /\ pc' = "minimize"
    /\ UNCHANGED <<Config, nEval, nRet, Frame, log, res>>

Dispatch0 ==
    /\ pc = "dispatch"
    /\ rxn_mech = "1s" /\ tog = 0
    /\ CallMinimize("chi_sq_func0_1s", p0_1s, b0_1s)

Dispatch1 ==
    /\ pc = "dispatch"
    /\ ~(rxn_mech = "1s" /\ tog = 0)
    /\ rxn_mech = "1s" /\ tog = 1
    /\ CallMinimize("chi_sq_func1_1s", p1_1s, b1_1s)

Dispatch2 ==
    /\ pc = "dispatch"
    /\ ~(rxn_mech = "1s" /\ tog = 0)
    /\ ~(rxn_mech = "1s" /\ tog = 1)
    /\ rxn_mech = "1s" /\ tog = 2
    /\ CallMinimize("chi_sq_func2_1s", p2_1s, b2_1s)

Dispatch2s ==
    /\ pc = "dispatch"
    /\ ~(rxn_mech = "1s" /\ tog \in {0, 1, 2})
    /\ rxn_mech = "2s"
    /\ CallMinimize("chi_sq_func0_2s", p0_2s, b0_2s)

\* no branch of the if/elif chain is taken and the script ends
DispatchNone ==
    /\ pc = "dispatch"
    /\ ~(rxn_mech = "1s" /\ tog \in {0, 1, 2})
    /\ rxn_mech # "2s"
    /\ pc' = "done"
    /\ UNCHANGED <<Config, fun, x0, bounds, nEval, nRet, Frame, log, res>>

\* minimize calls the objective: first at x0, then at further trial vectors
CallObjective ==
    /\ pc = "minimize"
    /\ nEval < MaxEvals
    /\ \E p \in (IF nEval = 0 THEN {x0} ELSE Trials(fun)) : p_opt' = p
    /\ nEval' = nEval + 1
    /\ reported' = <<>>
    /\ i' = 0
    /\ y_model' = <<>>
    /\ chi_sq' = ZeroChi
    /\ pc' = "unpack"
    /\ UNCHANGED <<Config, fun, x0, bounds, nRet, ctx, log, res>>

\* minimize returns its result and the script ends
MinimizeReturns ==
    /\ pc = "minimize"
    /\ nRet >= 1
    /\ res' = TRUE
    /\ pc' = "done"
    /\ UNCHANGED <<Config, fun, x0, bounds, nEval, nRet, Frame, log>>

\* the tuple assignment raises ValueError: nothing is assigned, and with no
\* handler in the function or around minimize the script ends
UnpackError ==
    /\ pc = "unpack"
    /\ Len(p_opt) # Len(Targets(fun))
    /\ pc' = "crashed"
    /\ UNCHANGED <<Config, fun, x0, bounds, nEval, nRet, Frame, log, res>>

\* the tuple assignment into the globals, the prints, y_model = np.array([])
Unpack ==
    /\ pc = "unpack"
    /\ Len(p_opt) = Len(Targets(fun))
    /\ ctx' = [n \in Names |->
                 IF \E k \in 1..Len(p_opt) : Targets(fun)[k] = n
                 THEN [v |-> p_opt[CHOOSE k \in 1..Len(p_opt) : Targets(fun)[k] = n],
                       ev |-> nEval]
                 ELSE ctx[n]]
    /\ reported' = Report(fun, p_opt)
    /\ y_model' = <<>>
    /\ i' = 1
    /\ pc' = "loop"
    /\ UNCHANGED <<Config, fun, x0, bounds, nEval, nRet, p_opt, chi_sq, log, res>>

\* w_Pt = w, at the head of one loop iteration
SetLoading ==
    /\ pc = "loop"
    /\ i <= Len(w_Pt_vec)
    /\ ctx' = [ctx EXCEPT !["w_Pt"] = [v |-> w_Pt_vec[i], ev |-> nEval]]
    /\ pc' = "exec"
    /\ UNCHANGED <<Config, fun, x0, bounds, nEval, nRet, p_opt, reported, i,
                   y_model, chi_sq, log, res>>

\* exec(pemfc_runner.py) completes; y_model = np.hstack([y_model, dphi_ss[1:]])
ExecReturns ==
    /\ pc = "exec"
    /\ \E dphi_ss \in SimOutputs(i) :
          y_model' = y_model \o DropFirst(dphi_ss)
    /\ log' = Append(log, [ev |-> nEval, w |-> ctx["w_Pt"].v, ok |-> TRUE])
    /\ i' = i + 1
    /\ pc' = "loop"
    /\ UNCHANGED <<Config, fun, x0, bounds, nEval, nRet, p_opt, ctx, reported,
                   chi_sq, res>>

\* a function that caught the failure and went on with a penalty curve
ExecRaises_absorbed ==
    /\ pc = "exec"
    /\ y_model' = y_model \o DropFirst(Curve(i, Len(x), 0 - MaxDelta))
    /\ log' = Append(log, [ev |-> nEval, w |-> ctx["w_Pt"].v, ok |-> FALSE])
    /\ i' = i + 1
    /\ pc' = "loop"
    /\ UNCHANGED <<Config, fun, x0, bounds, nEval, nRet, p_opt, ctx, reported,
                   chi_sq, res>>

\* exec(pemfc_runner.py) raises: the loop has no try/except, nor has the call
\* of minimize, so the exception ends the script
ExecRaises ==
    /\ pc = "exec"
    /\ log' = Append(log, [ev |-> nEval, w |-> ctx["w_Pt"].v, ok |-> FALSE])
    /\ pc' = "crashed"
    /\ UNCHANGED <<Config, fun, x0, bounds, nEval, nRet, Frame, res>>

\* chi_sq = sum((y_data - y_model)**2 / s_data**2); return chi_sq
ComputeChiSq ==
    /\ pc = "loop"
    /\ i > Len(w_Pt_vec)
    /\ Broadcastable(Len(y_data), Len(y_model))
    /\ chi_sq' = ChiSq(y_model)
    /\ nRet' = nRet + 1
    /\ pc' = "minimize"
    /\ UNCHANGED <<Config, fun, x0, bounds, nEval, p_opt, ctx, reported, i,
                   y_model, log, res>>

\* y_data - y_model raises ValueError (operands could not be broadcast)
ShapeError ==
    /\ pc = "loop"
    /\ i > Len(w_Pt_vec)
    /\ ~Broadcastable(Len(y_data), Len(y_model))
    /\ pc' = "crashed"
    /\ UNCHANGED <<Config, fun, x0, bounds, nEval, nRet, Frame, log, res>>

Next ==
    \/ Dispatch0
    \/ Dispatch1
    \/ Dispatch2
    \/ Dispatch2s
    \/ DispatchNone
    \/ CallObjective
    \/ MinimizeReturns
    \/ UnpackError
    \/ Unpack
    \/ SetLoading
    \/ ExecReturns
    \/ ExecRaises
    \/ ComputeChiSq
    \/ ShapeError

Spec == Init /\ [][Next]_vars

---------------------------------------------------------------------------
(* Properties *)

Recognized == {0, 1, 2}
NLoad == Len(DataLoading)
Returned == pc \in {"minimize", "done"} /\ nRet > 0

\* C1: a run whose tog is not 0, 1 or 2 ends in a fatal configuration error:
\* it selects no objective function, never invokes the simulator and never
\* reaches the normal end of the script.
C1_UnrecognizedModeFailsFast ==
    tog \notin Recognized =>
        /\ fun = "none"
        /\ log = <<>>
        /\ pc # "done"

\* C2: whenever the dispatch has selected an objective function, the initial
\* guess and the bounds handed to minimize have the same length, and that
\* length is the number of values the function unpacks from its argument.
C2_VectorLengthsMatchObjective ==
    fun # "none" =>
        /\ Len(x0) = Len(bounds)
        /\ Len(x0) = Len(Targets(fun))

\* C3: an evaluation has returned a chi-square only if the aggregated
\* prediction has the length of y_data (40); every other length is rejected.
C3_ChiSquareOnlyOnEqualLength ==
    Returned => Len(y_model) = Len(y_data)

C6_ContextWrittenBeforeEveryExec ==
    pc = "exec" =>
        /\ ctx["w_Pt"] = [v |-> DataLoading[i], ev |-> nEval]
        /\ \A n \in SimInputs(fun) : ctx[n].ev = nEval

\* C7: in mode 2 the interfacial resistance reported for each loading is
\* (c * loading^d + e) * 1e-3 with c, d and e of the current trial vector.
C7_RnafReportUsesTrialE ==
    (fun = "chi_sq_func2_1s" /\ reported # <<>>) =>
        \A k \in 1..NLoad :
            reported[k] = RnafTerm(p_opt[4], p_opt[5], DataLoading[k], p_opt[6])

\* C8: in mode 1 the exchange current density reported for each loading is
\* the absolute value of a * loading + b, with a and b of the current trial
\* vector, hence never negative.
C8_IoReportIsAbs ==
    (fun = "chi_sq_func1_1s" /\ reported # <<>>) =>
        \A k \in 1..NLoad :
            LET lin == p_opt[4] * DataLoading[k] + 40 * p_opt[5]
            IN  /\ reported[k] >= 0
                /\ lin >= 0 => reported[k] = lin
                /\ lin < 0 => reported[k] = 0 - lin

\* a mode-1 evaluation whose linear form is negative at some loading
C8_NegativeLinearForm ==
    /\ fun = "chi_sq_func1_1s"
    /\ reported # <<>>
    /\ \E k \in 1..NLoad : p_opt[4] * DataLoading[k] + 40 * p_opt[5] < 0

\* C9: a chi-square returned for a prediction of the right length is
\* non-negative (every gathered numerator is), and is exactly 0 when the
\* prediction equals the observation at every point.
C9_ChiSquareNonNegative ==
    (Returned /\ Len(y_model) = Len(y_data)) =>
        /\ \A s \in Weights : chi_sq[s] >= 0
        /\ y_model = y_data => chi_sq = ZeroChi

\* a returned chi-square for a prediction above the observation somewhere
C9_NegativeResidual ==
    /\ Returned
    /\ Len(y_model) = Len(y_data)
    /\ \E j \in 1..Len(y_data) : y_data[j] - y_model[j] < 0
    /\ \E s \in Weights : chi_sq[s] > 0

\* C10: the simulator runs only inside an evaluation, once per loading in the
\* order of the data sets; the j-th exec of the run belongs to evaluation
\* (j-1) div 4 + 1 and starts only after all earlier evaluations returned;
\* a chi-square is returned only after all four execs of its evaluation.
C10_OneExecPerLoadingInOrder ==
    /\ \A j \in DOMAIN log :
          /\ log[j].ev = ((j - 1) \div NLoad) + 1
          /\ log[j].w = DataLoading[((j - 1) % NLoad) + 1]
          /\ nRet >= log[j].ev - 1
    /\ Len(log) <= NLoad * nEval
    /\ pc \in {"loop", "exec"} => Len(log) = NLoad * (nEval - 1) + (i - 1)
    /\ Len(log) >= NLoad * nRet
    /\ \A j \in 1..(NLoad * nRet) : log[j].ok
    /\ Returned => Len(log) = NLoad * nRet

\* two evaluations have returned
C10_TwoEvaluationsReturned ==
    /\ nRet >= 2
    /\ pc = "minimize"
    /\ Len(log) = NLoad * nRet

===========================================================================
